---- MODULE Spec2Model ----
(***************************************************************************)
(* The automated truss solver of "Automated Truss Solver.ipynb": the cells *)
(* of the notebook run top to bottom on one truss read from the mesh file. *)
(*                                                                         *)
(*   reading cell      reads the truss from the lines of the mesh file     *)
(*   joints cell       builds the per-node array of concurrent members     *)
(*   determinacy cell  computes `condition` and prints a message           *)
(*   matrix cell       fills the matrix A                                  *)
(*   solve cell        fills the right hand side b and solves A x = b      *)
(*   results cell      gives every member a colour index by its force      *)
(*                                                                         *)
(* A cell that raises an error halts the run.                              *)
(*                                                                         *)
(* Arrays are 0-based functions, as in the notebook.  Coordinates and      *)
(* loads are integers.  A real number d / sqrt(r) (a component of a unit   *)
(* vector: d a coordinate difference, r the squared member length) is the  *)
(* record [n |-> d, r |-> r]; a solved unknown (p/q) * sqrt(r) is the      *)
(* record [p |-> p, q |-> q, r |-> r].  Arithmetic is exact.               *)
(***************************************************************************)
EXTENDS Integers, Sequences, FiniteSets, TLC

VARIABLES filelines, pc, nodes, members, BC_fixed, BC_roller, loads,
          joints, message, A, b, x, err,
          results, reaction_forces,
          max_tension_force, max_compression_force, member_color

\* What the results cell produces.
outvars == <<results, reaction_forces,
             max_tension_force, max_compression_force, member_color>>

vars == <<filelines, pc, nodes, members, BC_fixed, BC_roller, loads,
          joints, message, A, b, x, err, outvars>>

(***************************************************************************)
(* Bounds of the model.                                                    *)
(***************************************************************************)
MaxNodes == 8
MaxLoads == 2
Coord == 1

(***************************************************************************)
(* Program constant.                                                       *)
(***************************************************************************)
max_valence == 6
n_contours == 50

n_nodes == Cardinality(DOMAIN nodes)
n_members == Cardinality(DOMAIN members)
n_loads == Cardinality(DOMAIN loads)

ZeroBased(s) == [i \in 0..(Len(s) - 1) |-> s[i + 1]]

Abs(a) == IF a < 0 THEN -a ELSE a

(***************************************************************************)
(* The trusses the mesh file may hold.                                     *)
(***************************************************************************)
\* Node positions in general position with respect to nodes 0 and 1.
NodePool ==
  <<  <<0, 0>>, <<1, 0>>, <<1, 1>>, <<0, 1>>, <<2, 1>>,
      <<-1, 1>>, <<1, 2>>, <<2, 2>>, <<0, 2>>, <<2, 3>> >>

RECURSIVE LexPairs(_, _, _)
\* The pairs (a, c) with a < c < n from (a, c) on, in lexicographic order.
LexPairs(n, a, c) ==
  IF a >= n - 1 THEN <<>>
  ELSE IF c >= n THEN LexPairs(n, a + 1, a + 2)
  ELSE <<  <<a, c>> >> \o LexPairs(n, a, c + 1)

RECURSIVE Spokes(_, _)
\* (0,k), (1,k) for k = 2..n-1 from k on.
Spokes(n, k) ==
  IF k >= n THEN <<>> ELSE <<  <<0, k>>, <<1, k>> >> \o Spokes(n, k + 1)

Forces == { <<0, -1>>, <<1, 0>> }

LoadChoices(n) ==
  {<<n - 1, f[1], f[2]>> : f \in Forces} \cup {<<1, 1, 0>>}

RECURSIVE SeqsUpTo(_, _)
SeqsUpTo(S, k) ==
  IF k = 0 THEN {<<>>}
  ELSE LET shorter == SeqsUpTo(S, k - 1)
       IN  shorter \cup {Append(s, e) : s \in {t \in shorter : Len(t) = k - 1}, e \in S}

SupportChoices(n) ==
  { <<0, n - 1>>, <<n - 1, 0>> } \cup (IF n >= 3 THEN { <<0, n - 2>> } ELSE {})

Input(ns, ms, sup, ls) ==
  [nodes |-> ZeroBased(ns), members |-> ZeroBased(ms),
   BC_fixed |-> sup[1], BC_roller |-> sup[2], loads |-> ZeroBased(ls)]

\* Two nodes and one member in every orientation, one load along the member.
TwoNodeInputs ==
  { Input(<<  <<0, 0>>, <<cx, cy>> >>, << mem >>, sup, <<  <<k, c * cx, c * cy>> >>) :
      cx \in -Coord..Coord, cy \in -Coord..Coord,
      mem \in { <<0, 1>>, <<1, 0>> },
      sup \in { <<0, 1>>, <<1, 0>> },
      k \in {0, 1}, c \in {-1, 1} }

\* n nodes joined by the first m pairs, for every m up to 2n: fewer members
\* than, exactly and more than 2n - 3.
FanInputs ==
  UNION { UNION { { Input(SubSeq(NodePool, 1, n), SubSeq(LexPairs(n, 0, 1), 1, m), sup, ls) :
                      sup \in SupportChoices(n),
                      ls \in SeqsUpTo(LoadChoices(n), MaxLoads) } :
            m \in { k \in 1..(2 * n) : k <= Len(LexPairs(n, 0, 1)) } } :
          n \in 2..MaxNodes }

\* The same nodes with the member between nodes 0 and 1 listed last; nodes 0
\* and 1 may share their coordinates.
LateChordInputs ==
  { Input([k \in 1..n |-> IF k = 2 /\ same THEN NodePool[1] ELSE NodePool[k]],
          Spokes(n, 2) \o <<  <<0, 1>> >>,
          <<0, n - 2>>, <<  <<n - 1, 0, -1>> >>) :
      n \in 3..MaxNodes, same \in BOOLEAN }

\* The sample truss printed by the notebook.
BridgeNodes == <<  <<0, 0>>, <<0, 1>>, <<1, 2>>, <<2, 2>>, <<3, 1>>, <<3, 0>> >>
BridgeMembers ==
  <<  <<0, 1>>, <<0, 2>>, <<1, 2>>, <<1, 3>>, <<2, 3>>,
      <<2, 4>>, <<3, 4>>, <<3, 5>>, <<4, 5>> >>
BridgeLoads == <<  <<1, 0, -1>>, <<2, 0, -2>>, <<3, 0, -2>>, <<4, 0, -1>> >>
BridgeInput == Input(BridgeNodes, BridgeMembers, <<0, 5>>, BridgeLoads)

\* The last member names node k, for every k from below -n to above n - 1.
StrayIndexInputs ==
  { Input(SubSeq(NodePool, 1, n),
          SubSeq(<<  <<0, 1>>, <<1, 2>> >>, 1, 2 * n - 4) \o <<  <<0, k>> >>,
          <<0, n - 1>>, <<  <<n - 1, 1, 0>> >>) :
      n \in 2..3, k \in -4..3 }

\* A single node, and nodes without any member.
FewInputs ==
  { Input(<<  <<0, 0>> >>, <<>>, <<0, 0>>, <<>>),
    Input(<<  <<0, 0>> >>, <<  <<0, 0>> >>, <<0, 0>>, <<  <<0, 0, -1>> >>),
    Input(<<  <<0, 0>>, <<1, 0>> >>, <<>>, <<0, 1>>, <<  <<1, 0, -1>> >>) }

Inputs ==
  TwoNodeInputs \cup FanInputs \cup LateChordInputs \cup {BridgeInput}
    \cup StrayIndexInputs \cup FewInputs

(***************************************************************************)
(* The mesh file and the reading cell.  A line of the file is either text  *)
(* or the numbers it holds, separated by blanks.                           *)
(***************************************************************************)
TextLine == [text |-> TRUE, nums |-> <<>>]
NumLine(t) == [text |-> FALSE, nums |-> t]

\* The lines of the file of truss inp: a heading, the number of nodes, the
\* nodes, sep, the number of members, the members, sep, the fixed node, a
\* heading, the roller node, a heading, the number of loads, the loads.
FileLines(inp, sep) ==
  LET n == Cardinality(DOMAIN inp.nodes)
      m == Cardinality(DOMAIN inp.members)
      l == Cardinality(DOMAIN inp.loads)
  IN  ZeroBased(
        << TextLine, NumLine(<<n>>) >>
        \o [k \in 1..n |-> NumLine(inp.nodes[k - 1])]
        \o sep
        \o << NumLine(<<m>>) >>
        \o [k \in 1..m |-> NumLine(inp.members[k - 1])]
        \o sep
        \o << NumLine(<<inp.BC_fixed>>), TextLine, NumLine(<<inp.BC_roller>>),
              TextLine, NumLine(<<l>>) >>
        \o [k \in 1..l |-> NumLine(inp.loads[k - 1])])

\* The files with a heading line before the number of members and before
\* the fixed node.
Files == { FileLines(inp, << TextLine >>) : inp \in Inputs }

\* Files of the two-node trusses and of the sample truss without those two
\* heading lines.
UnseparatedFiles == { FileLines(inp, <<>>) : inp \in TwoNodeInputs \cup {BridgeInput} }

\* int(filelines[k])
IntError(fl, k) ==
  IF k \notin DOMAIN fl THEN "IndexError"
  ELSE IF fl[k].text \/ Len(fl[k].nums) # 1 THEN "ValueError"
  ELSE "none"

\* aux = filelines[k].split(' ') and the conversion of aux[0..cnt-1]
SplitError(fl, k, cnt) ==
  IF k \notin DOMAIN fl THEN "IndexError"
  ELSE IF fl[k].text THEN "ValueError"
  ELSE IF Len(fl[k].nums) < cnt THEN "IndexError"
  ELSE "none"

\* The first error of the loop reading cnt numbers from each of the lines
\* first..first+count-1.
LoopError(fl, first, count, cnt) ==
  LET bad == {i \in 0..(count - 1) : SplitError(fl, first + i, cnt) # "none"}
  IN  IF bad = {} THEN "none"
      ELSE SplitError(fl, first + (CHOOSE i \in bad : \A j \in bad : i <= j), cnt)

Row(fl, k, cnt) == [j \in 1..cnt |-> fl[k].nums[j]]

\* The line indices the reading cell uses.
NodeLine(i) == i + 2
MembersCountLine_next(n) == n + 2
MembersCountLine(n) == n + 3
MemberLine(n, i) == i + n + 4
FixedLine(n, m) == n + m + 5
RollerLine(n, m) == n + m + 7
LoadsCountLine(n, m) == n + m + 9
LoadLine(n, m, i) == n + m + 10 + i

\* The reading cell, statement by statement, up to the first error.
ReadFile(fl) ==
  LET unread == [error |-> "none", nodes |-> <<>>, members |-> <<>>,
                 BC_fixed |-> -1, BC_roller |-> -1, loads |-> <<>>]
  IN  IF IntError(fl, 1) # "none" THEN [unread EXCEPT !.error = IntError(fl, 1)]
      ELSE
      LET n == fl[1].nums[1]
      IN  IF LoopError(fl, NodeLine(0), n, 2) # "none"
          THEN [unread EXCEPT !.error = LoopError(fl, NodeLine(0), n, 2)]
          ELSE
          LET r1 == [unread EXCEPT !.nodes = [i \in 0..(n - 1) |-> Row(fl, NodeLine(i), 2)]]
          IN  IF IntError(fl, MembersCountLine(n)) # "none"
              THEN [r1 EXCEPT !.error = IntError(fl, MembersCountLine(n))]
              ELSE
              LET m == fl[MembersCountLine(n)].nums[1]
              IN  IF LoopError(fl, MemberLine(n, 0), m, 2) # "none"
                  THEN [r1 EXCEPT !.error = LoopError(fl, MemberLine(n, 0), m, 2)]
                  ELSE
                  LET r2 == [r1 EXCEPT !.members =
                                [i \in 0..(m - 1) |-> Row(fl, MemberLine(n, i), 2)]]
                  IN  IF IntError(fl, FixedLine(n, m)) # "none"
                      THEN [r2 EXCEPT !.error = IntError(fl, FixedLine(n, m))]
                      ELSE IF IntError(fl, RollerLine(n, m)) # "none"
                      THEN [r2 EXCEPT !.error = IntError(fl, RollerLine(n, m)),
                                      !.BC_fixed = fl[FixedLine(n, m)].nums[1]]
                      ELSE
                      LET r3 == [r2 EXCEPT !.BC_fixed = fl[FixedLine(n, m)].nums[1],
                                           !.BC_roller = fl[RollerLine(n, m)].nums[1]]
                      IN  IF IntError(fl, LoadsCountLine(n, m)) # "none"
                          THEN [r3 EXCEPT !.error = IntError(fl, LoadsCountLine(n, m))]
                          ELSE
                          LET l == fl[LoadsCountLine(n, m)].nums[1]
                          IN  IF LoopError(fl, LoadLine(n, m, 0), l, 3) # "none"
                              THEN [r3 EXCEPT !.error = LoopError(fl, LoadLine(n, m, 0), l, 3)]
                              ELSE [r3 EXCEPT !.loads =
                                      [i \in 0..(l - 1) |-> Row(fl, LoadLine(n, m, i), 3)]]

ReadCell ==
  /\ pc = "read"
  /\ LET read == ReadFile(filelines)
     IN  /\ nodes' = read.nodes
         /\ members' = read.members
         /\ BC_fixed' = read.BC_fixed
         /\ BC_roller' = read.BC_roller
         /\ loads' = read.loads
         /\ err' = read.error
         /\ pc' = IF read.error = "none" THEN "joints" ELSE "halted"
  /\ UNCHANGED <<filelines, joints, message, A, b, x, outvars>>

(***************************************************************************)
(* The joints cell.                                                        *)
(***************************************************************************)
\* for j in range(max_valence): if row[j] == -1: row[j] = i; break
FillFirstFree(row, i) ==
  LET free == {j \in 0..(max_valence - 1) : row[j] = -1}
  IN  IF free = {} THEN row
      ELSE LET j == CHOOSE k \in free : \A l \in free : k <= l
           IN  [row EXCEPT ![j] = i]

\* Indexing an array of n rows with k: the rows are 0..n-1, and -n..-1
\* count from the end; any other k raises IndexError.
InBounds(k, n) == -n <= k /\ k < n
Wrap(k, n) == IF k < 0 THEN k + n ELSE k

RECURSIVE JointsFrom_firstNodeOnly(_, _, _)
JointsFrom_firstNodeOnly(J, ms, i) ==
  LET n == Cardinality(DOMAIN J)
  IN  IF i \notin DOMAIN ms THEN J
      ELSE IF ~InBounds(ms[i][1], n) THEN J
      ELSE LET J1 == [J EXCEPT ![Wrap(ms[i][1], n)] = FillFirstFree(@, i)]
           IN  IF ~InBounds(ms[i][2], n) THEN J1
               ELSE JointsFrom_firstNodeOnly(J1, ms, i + 1)

RECURSIVE JointsFrom(_, _, _)
\* The loop over the members from member i on, up to the first index that
\* is out of bounds.
JointsFrom(J, ms, i) ==
  LET n == Cardinality(DOMAIN J)
  IN  IF i \notin DOMAIN ms THEN J
      ELSE IF ~InBounds(ms[i][1], n) THEN J
      ELSE LET J1 == [J EXCEPT ![Wrap(ms[i][1], n)] = FillFirstFree(@, i)]
               J2 == [J1 EXCEPT ![Wrap(ms[i][2], n)] = FillFirstFree(@, i)]
           IN  IF ~InBounds(ms[i][2], n) THEN J1
               ELSE JointsFrom(J2, ms, i + 1)

BuildJoints(ns, ms) ==
  JointsFrom([i \in DOMAIN ns |-> [j \in 0..(max_valence - 1) |-> -1]], ms, 0)

\* Some member makes the loop raise IndexError.
IndexErrorIn(ns, ms) ==
  \E i \in DOMAIN ms : \E e \in 1..2 : ~InBounds(ms[i][e], Cardinality(DOMAIN ns))

JointsCell ==
  /\ pc = "joints"
  /\ joints' = BuildJoints(nodes, members)
  /\ IF IndexErrorIn(nodes, members)
     THEN err' = "IndexError" /\ pc' = "halted"
     ELSE err' = err /\ pc' = "determinacy"
  /\ UNCHANGED <<filelines, nodes, members, BC_fixed, BC_roller, loads, message, A, b, x, outvars>>

(***************************************************************************)
(* The determinacy cell.                                                   *)
(***************************************************************************)
\* condition = (equations) - (unknowns)
condition(n, m) == 2 * n - (m + 3)

checkDeterminacy_ge(n, m) ==
  IF condition(n, m) >= 0 THEN "UnderConstrained"
  ELSE IF condition(n, m) < 0 THEN "OverConstrained"
  ELSE "Determinate"

\* if condition>0: ... elif condition<0: ... else: ...
checkDeterminacy(n, m) ==
  IF condition(n, m) > 0 THEN "UnderConstrained"
  ELSE IF condition(n, m) < 0 THEN "OverConstrained"
  ELSE "Determinate"

\* The cell prints its message and the notebook goes on to the next cell.
DeterminacyCell ==
  /\ pc = "determinacy"
  /\ message' = checkDeterminacy(n_nodes, n_members)
  /\ pc' = "assemble"
  /\ UNCHANGED <<filelines, nodes, members, BC_fixed, BC_roller, loads, joints, A, b, x, err, outvars>>

(***************************************************************************)
(* The matrix cell.                                                        *)
(***************************************************************************)
Zero == [n |-> 0, r |-> 1]
One == [n |-> 1, r |-> 1]

\* The members of row i of the joints array up to the first negative entry.
Concurrent(J, i) ==
  {J[i][j] : j \in {k \in 0..(max_valence - 1) : \A l \in 0..k : J[i][l] >= 0}}

OtherEnd(mem, i) == IF mem[1] = i THEN mem[2] ELSE mem[1]

\* nodes[k, :]
NodeAt(ns, k) == ns[Wrap(k, Cardinality(DOMAIN ns))]

Length2(ns, mem) ==
  (NodeAt(ns, mem[2])[1] - NodeAt(ns, mem[1])[1]) * (NodeAt(ns, mem[2])[1] - NodeAt(ns, mem[1])[1])
  + (NodeAt(ns, mem[2])[2] - NodeAt(ns, mem[1])[2]) * (NodeAt(ns, mem[2])[2] - NodeAt(ns, mem[1])[2])

\* Component axis (1: x, 2: y) of the unit vector from node i to the other
\* end of the member.
MemberEntry(ns, mem, i, axis) ==
  [n |-> NodeAt(ns, OtherEnd(mem, i))[axis] - ns[i][axis], r |-> Length2(ns, mem)]

ReactionEntry == One

\* A member of zero length met while looping over the joints.
Degenerate(ns, ms, J) ==
  \E i \in DOMAIN ns : \E m \in Concurrent(J, i) : Length2(ns, ms[m]) = 0

ReactionCell_rollerX(row, col, nm, fixed, roller) ==
  \/ row = fixed * 2 + 0 /\ col = nm
  \/ row = fixed * 2 + 1 /\ col = nm + 1
  \/ row = roller * 2 + 0 /\ col = nm + 2

ReactionCell_fixedSwapped(row, col, nm, fixed, roller) ==
  \/ row = fixed * 2 + 0 /\ col = nm + 1
  \/ row = fixed * 2 + 1 /\ col = nm
  \/ row = roller * 2 + 1 /\ col = nm + 2

ReactionCell_fixedSameColumn(row, col, nm, fixed, roller) ==
  \/ row = fixed * 2 + 0 /\ col = nm
  \/ row = fixed * 2 + 1 /\ col = nm
  \/ row = roller * 2 + 1 /\ col = nm + 2

\* The cells of the reaction columns the loop writes: the fixed support in
\* the third and second to last columns, the roller in the last.
ReactionCell(row, col, nm, fixed, roller) ==
  \/ row = fixed * 2 + 0 /\ col = nm
  \/ row = fixed * 2 + 1 /\ col = nm + 1
  \/ row = roller * 2 + 1 /\ col = nm + 2

\* A = np.zeros((2*n_nodes,n_members+3)), then the loop over the joints.
FillA(ns, ms, J, fixed, roller) ==
  LET nm == Cardinality(DOMAIN ms)
  IN  [row \in 0..(2 * Cardinality(DOMAIN ns) - 1) |->
        [col \in 0..(nm + 2) |->
          LET i == row \div 2
              axis == (row % 2) + 1
          IN  IF col < nm
              THEN IF col \in Concurrent(J, i)
                   THEN MemberEntry(ns, ms[col], i, axis) ELSE Zero
              ELSE IF ReactionCell(row, col, nm, fixed, roller)
                   THEN ReactionEntry ELSE Zero]]

MatrixCell ==
  /\ pc = "assemble"
  /\ IF Degenerate(nodes, members, joints)
     THEN /\ err' = "DegenerateMemberError"
          /\ pc' = "halted"
          /\ A' = A
     ELSE /\ A' = FillA(nodes, members, joints, BC_fixed, BC_roller)
          /\ pc' = "solve"
          /\ err' = err
  /\ UNCHANGED <<filelines, nodes, members, BC_fixed, BC_roller, loads, joints, message, b, x, outvars>>

(***************************************************************************)
(* The solve cell.                                                         *)
(***************************************************************************)
\* b[2k] and b[2k+1] take the negative of the load on node k, loads on the
\* same node adding up.
LoadStep(bb, load) ==
  [bb EXCEPT ![2 * load[1]] = @ - load[2], ![2 * load[1] + 1] = @ - load[3]]

RECURSIVE LoadsFrom(_, _, _, _)
LoadsFrom(bb, ls, i, n) ==
  IF i >= n THEN bb ELSE LoadsFrom(LoadStep(bb, ls[i]), ls, i + 1, n)

FillB_skipLast(n, ls) ==
  LoadsFrom([row \in 0..(2 * n - 1) |-> 0], ls, 0, Cardinality(DOMAIN ls) - 1)

\* b = np.zeros((2*n_nodes)); for i in range(n_loads): ...
FillB(n, ls) ==
  LoadsFrom([row \in 0..(2 * n - 1) |-> 0], ls, 0, Cardinality(DOMAIN ls))

\* Exact rationals <<p, q>>, q > 0, in lowest terms.
RECURSIVE GCD(_, _)
GCD(a, c) == IF c = 0 THEN a ELSE GCD(c, a % c)

Rat(p, q) ==
  IF p = 0 THEN <<0, 1>>
  ELSE LET g == GCD(Abs(p), Abs(q))
           s == IF q < 0 THEN -1 ELSE 1
       IN  <<(s * p) \div g, (s * q) \div g>>

RSub(u, v) == Rat(u[1] * v[2] - v[1] * u[2], u[2] * v[2])
RAdd(u, v) == Rat(u[1] * v[2] + v[1] * u[2], u[2] * v[2])
RMul(u, v) == Rat(u[1] * v[1], u[2] * v[2])
RDiv(u, v) == Rat(u[1] * v[2], u[2] * v[1])

\* Gauss-Jordan elimination of the augmented matrix M (N rows, columns
\* 0..N) from column c on; <<>> when a column has no pivot.  (M2 = M2 makes
\* TLC compute M2 once, before the next column reads it.)
RECURSIVE Eliminate(_, _, _)
Eliminate(M, N, c) ==
  IF c = N THEN M
  ELSE LET rows == {i \in c..(N - 1) : M[i][c][1] # 0}
       IN  IF rows = {} THEN <<>>
           ELSE LET p == CHOOSE i \in rows : \A k \in rows : i <= k
                    S == [i \in 0..(N - 1) |->
                           IF i = c THEN M[p] ELSE IF i = p THEN M[c] ELSE M[i]]
                    prow == [j \in 0..N |-> RDiv(S[c][j], S[c][c])]
                    M2 == [i \in 0..(N - 1) |->
                            IF i = c THEN prow
                            ELSE IF S[i][c][1] = 0 THEN S[i]
                            ELSE [j \in 0..N |->
                                   IF prow[j][1] = 0 THEN S[i][j]
                                   ELSE RSub(S[i][j], RMul(S[i][c], prow[j]))]]
                IN  IF M2 = M2 THEN Eliminate(M2, N, c + 1) ELSE <<>>

\* The squared length that scales column c of AA.
ColumnScale(AA, c) ==
  LET rs == {AA[i][c].r : i \in {k \in DOMAIN AA : AA[k][c].n # 0}}
  IN  IF rs = {} THEN 1 ELSE CHOOSE r \in rs : TRUE

\* No search for a pivot row below the diagonal.
solve_noRowExchange(AA, bb) ==
  LET N == Cardinality(DOMAIN AA)
      cols == Cardinality(DOMAIN AA[0])
  IN  IF cols # N THEN [error |-> "LinAlgError: not square", x |-> <<>>]
      ELSE IF \E i \in 0..(N - 1) : AA[i][i].n = 0
      THEN [error |-> "LinAlgError: Singular matrix", x |-> <<>>]
      ELSE LET M == [i \in 0..(N - 1) |->
                      [j \in 0..N |-> IF j = N THEN <<bb[i], 1>> ELSE <<AA[i][j].n, 1>>]]
               E == Eliminate(M, N, 0)
           IN  IF E = <<>> THEN [error |-> "LinAlgError: Singular matrix", x |-> <<>>]
               ELSE [error |-> "none",
                     x |-> [c \in 0..(N - 1) |->
                             [p |-> E[c][N][1], q |-> E[c][N][2], r |-> ColumnScale(AA, c)]]]

\* np.linalg.solve(A,b) in exact arithmetic.  Column c of AA is an integer
\* column divided by sqrt(ColumnScale(AA, c)), so the unknown of column c is
\* sqrt(ColumnScale(AA, c)) times the unknown of the integer system.
solve(AA, bb) ==
  LET N == Cardinality(DOMAIN AA)
      cols == Cardinality(DOMAIN AA[0])
  IN  IF cols # N THEN [error |-> "LinAlgError: not square", x |-> <<>>]
      ELSE LET M == [i \in 0..(N - 1) |->
                      [j \in 0..N |-> IF j = N THEN <<bb[i], 1>> ELSE <<AA[i][j].n, 1>>]]
               E == Eliminate(M, N, 0)
           IN  IF E = <<>> THEN [error |-> "LinAlgError: Singular matrix", x |-> <<>>]
               ELSE [error |-> "none",
                     x |-> [c \in 0..(N - 1) |->
                             [p |-> E[c][N][1], q |-> E[c][N][2], r |-> ColumnScale(AA, c)]]]

SolveCell ==
  /\ pc = "solve"
  /\ b' = FillB(n_nodes, loads)
  /\ LET res == solve(A, b')
     IN  /\ x' = res.x
         /\ err' = res.error
         /\ pc' = IF res.error = "none" THEN "results" ELSE "halted"
  /\ UNCHANGED <<filelines, nodes, members, BC_fixed, BC_roller, loads, joints, message, A, outvars>>

(***************************************************************************)
(* The results cell.                                                       *)
(***************************************************************************)
\* The sign of the unknown (p/q) * sqrt(r).
Sign(f) == IF f.p > 0 THEN 1 ELSE IF f.p < 0 THEN -1 ELSE 0

\* for i in range(n_members)
MemberRange_allUnknowns(nm) == 0..(nm + 2)

MemberRange(nm) == 0..(nm - 1)

\* One result per member: its index, its solved force and the kind the sign
\* of the force gives.
classify(unknowns, nm) ==
  [i \in MemberRange(nm) |->
    [memberIndex |-> i,
     force |-> unknowns[i],
     kind |-> IF Sign(unknowns[i]) > 0 THEN "Tension"
              ELSE IF Sign(unknowns[i]) < 0 THEN "Compression"
              ELSE "Zero"]]

\* The support reactions: the last three unknowns.
reactions(unknowns, nm) ==
  [fixedX |-> unknowns[nm], fixedY |-> unknowns[nm + 1], rollerY |-> unknowns[nm + 2]]

\* The ranges [max_compression_force, max_tension_force] of the colour map.
ColorRanges == { <<-1, 1>>, <<-3, 2>> }

\* The colour index of force f: the middle index n_contours/2 for force 0,
\* index n_contours for the maximum tension hi and beyond, index 0 for the
\* maximum compression lo and beyond, linear in between and cut to an
\* integer.  (k * |f| >= c exactly when (k * p)^2 * r >= (c * q)^2.)
ColorIndex(f, lo, hi) ==
  LET half == n_contours \div 2
      num == half * half * f.p * f.p * f.r
  IN  IF Sign(f) >= 0
      THEN half + Cardinality({j \in 1..half : num >= (j * hi * f.q) * (j * hi * f.q)})
      ELSE half - Cardinality({j \in 1..half :
                                 num > ((j - 1) * lo * f.q) * ((j - 1) * lo * f.q)})

ResultsCell ==
  /\ pc = "results"
  /\ results' = classify(x, n_members)
  /\ reaction_forces' = reactions(x, n_members)
  /\ \E range \in ColorRanges :
       /\ max_compression_force' = range[1]
       /\ max_tension_force' = range[2]
       /\ member_color' = [i \in MemberRange(n_members) |-> ColorIndex(x[i], range[1], range[2])]
  /\ pc' = "done"
  /\ UNCHANGED <<filelines, nodes, members, BC_fixed, BC_roller, loads, joints, message, A, b, x, err>>

Init ==
  /\ filelines \in Files \cup UnseparatedFiles
  /\ pc = "read"
  /\ nodes = <<>>
  /\ members = <<>>
  /\ BC_fixed = -1
  /\ BC_roller = -1
  /\ loads = <<>>
  /\ joints = <<>>
  /\ message = "none"
  /\ A = <<>>
  /\ b = <<>>
  /\ x = <<>>
  /\ err = "none"
  /\ results = <<>>
  /\ reaction_forces = <<>>
  /\ max_tension_force = 0
  /\ max_compression_force = 0
  /\ member_color = <<>>

Next == ReadCell \/ JointsCell \/ DeterminacyCell \/ MatrixCell \/ SolveCell \/ ResultsCell

Spec == Init /\ [][Next]_vars

(***************************************************************************)
(* Properties.                                                             *)
(***************************************************************************)
Assembled == pc \in {"solve", "results", "done"} \/ (pc = "halted" /\ A # <<>>)

\* The reading cell has run without error.
ReadDone == pc # "read" /\ ~(pc = "halted" /\ joints = <<>>)

\* The joints cell has run.
JointsDone == ReadDone /\ pc # "joints"

\* The matrix cell has run.
MatrixCellRan ==
  pc \in {"solve", "results", "done"} \/ (pc = "halted" /\ message # "none")

\* At least two nodes, at least one member, every member between nodes
\* 0..n_nodes-1.
ValidGeometry ==
  /\ n_nodes >= 2
  /\ n_members >= 1
  /\ \A m \in DOMAIN members : \A e \in 1..2 : members[m][e] \in 0..(n_nodes - 1)

\* C1: the determinacy cell reports Determinate exactly when
\* 2*n_nodes = n_members+3, UnderConstrained exactly when 2*n_nodes is
\* greater and OverConstrained exactly when it is less.
C1_DeterminacyThreeWay ==
  message # "none" =>
    /\ message \in {"Determinate", "UnderConstrained", "OverConstrained"}
    /\ (message = "Determinate") <=> (2 * n_nodes = n_members + 3)
    /\ (message = "UnderConstrained") <=> (2 * n_nodes > n_members + 3)
    /\ (message = "OverConstrained") <=> (2 * n_nodes < n_members + 3)

C1_Witness ==
  /\ message = "OverConstrained"
  /\ n_nodes > 2
  /\ 2 * n_nodes < n_members + 3

\* C2: the matrix cell and the solve cell run only after the determinacy
\* cell has reported Determinate.
C2_AssembleOnlyWhenDeterminate ==
  MatrixCellRan => message = "Determinate"

\* The members with node i as an endpoint, in increasing member order.
RECURSIVE IncidentFrom(_, _, _)
IncidentFrom(ms, i, m) ==
  IF m \notin DOMAIN ms THEN <<>>
  ELSE (IF i \in {ms[m][1], ms[m][2]} THEN <<m>> ELSE <<>>) \o IncidentFrom(ms, i, m + 1)

\* Row i of the joints array up to its first negative entry, as a sequence.
RECURSIVE AdjacencyFrom(_, _, _)
AdjacencyFrom(J, i, j) ==
  IF j >= max_valence \/ J[i][j] < 0 THEN <<>>
  ELSE <<J[i][j]>> \o AdjacencyFrom(J, i, j + 1)

\* C3: for every node the adjacency list is exactly the sequence of the
\* members that have the node as an endpoint, in increasing member order,
\* whatever their number.
C3_AdjacencyComplete ==
  (ValidGeometry /\ joints # <<>>) =>
    \A i \in DOMAIN nodes : AdjacencyFrom(joints, i, 0) = IncidentFrom(members, i, 0)

\* u.n / sqrt(u.r) = v.n / sqrt(v.r)
RealEq(u, v) ==
  /\ (u.n > 0) = (v.n > 0)
  /\ (u.n < 0) = (v.n < 0)
  /\ u.n * u.n * v.r = v.n * v.n * u.r

\* C4: A has 2*n_nodes rows and n_members+3 columns; in a member column
\* the two rows of an endpoint hold the unit vector from that endpoint to
\* the other one and the rows of every other node hold 0.
C4_MemberColumns ==
  (ValidGeometry /\ Assembled) =>
    /\ DOMAIN A = 0..(2 * n_nodes - 1)
    /\ \A row \in DOMAIN A : DOMAIN A[row] = 0..(n_members + 2)
    /\ \A i \in DOMAIN nodes : \A m \in DOMAIN members :
         IF i \in {members[m][1], members[m][2]}
         THEN LET o == IF members[m][1] = i THEN members[m][2] ELSE members[m][1]
                  len2 == (nodes[o][1] - nodes[i][1]) * (nodes[o][1] - nodes[i][1])
                          + (nodes[o][2] - nodes[i][2]) * (nodes[o][2] - nodes[i][2])
              IN  /\ RealEq(A[2 * i][m], [n |-> nodes[o][1] - nodes[i][1], r |-> len2])
                  /\ RealEq(A[2 * i + 1][m], [n |-> nodes[o][2] - nodes[i][2], r |-> len2])
         ELSE A[2 * i][m].n = 0 /\ A[2 * i + 1][m].n = 0

\* C5: each reaction column holds a single non-zero entry, equal to 1: the
\* third to last at row 2*fixed, the second to last at row 2*fixed+1 and
\* the last at row 2*roller+1.
C5_ReactionColumns ==
  Assembled =>
    \A row \in DOMAIN A : \A k \in 0..2 :
      LET at == \/ k = 0 /\ row = 2 * BC_fixed
                \/ k = 1 /\ row = 2 * BC_fixed + 1
                \/ k = 2 /\ row = 2 * BC_roller + 1
      IN  IF at THEN RealEq(A[row][n_members + k], [n |-> 1, r |-> 1])
          ELSE A[row][n_members + k].n = 0

C5_Witness ==
  /\ Assembled
  /\ BC_roller # 0
  /\ A[2 * BC_roller + 1][n_members + 2].n = 1
  /\ A[2 * BC_roller][n_members + 2].n = 0
  /\ A[2 * BC_fixed][n_members].n = 1

\* The sum of component comp (2: Fx, 3: Fy) of the loads from load i on
\* whose node is in the set ks.
RECURSIVE LoadSum(_, _, _, _)
LoadSum(ls, ks, comp, i) ==
  IF i \notin DOMAIN ls THEN 0
  ELSE (IF ls[i][1] \in ks THEN ls[i][comp] ELSE 0) + LoadSum(ls, ks, comp, i + 1)

\* C6: b[2i] and b[2i+1] are the negated sums of Fx and of Fy over all the
\* loads on node i, and 0 for a node without load.
C6_RightHandSide ==
  b # <<>> =>
    /\ DOMAIN b = 0..(2 * n_nodes - 1)
    /\ \A i \in DOMAIN nodes :
         /\ b[2 * i] = -LoadSum(loads, {i}, 2, 0)
         /\ b[2 * i + 1] = -LoadSum(loads, {i}, 3, 0)

C6_Witness ==
  /\ b # <<>>
  /\ n_loads = 2
  /\ loads[0][1] = loads[1][1]
  /\ loads[0][3] = -1 /\ loads[1][3] = -1
  /\ b[2 * loads[0][1] + 1] = 2
  /\ \E i \in DOMAIN nodes : b[2 * i] = 0 /\ b[2 * i + 1] = 0 /\ i # loads[0][1]

\* The value of reaction k (0: fixed x, 1: fixed y, 2: roller y).
Reaction(k) == <<x[n_members + k].p, x[n_members + k].q>>

\* C7: whenever the solve succeeds the reactions balance the loads:
\* FixedRx + sum Fx = 0 and FixedRy + RollerRy + sum Fy = 0.
C7_GlobalEquilibrium ==
  pc = "results" =>
    /\ RAdd(Reaction(0), <<LoadSum(loads, DOMAIN nodes, 2, 0), 1>>) = <<0, 1>>
    /\ RAdd(RAdd(Reaction(1), Reaction(2)),
            <<LoadSum(loads, DOMAIN nodes, 3, 0), 1>>) = <<0, 1>>

\* Two nodes, one member between them, the supports on different nodes and
\* a single load parallel to the member.
TwoNodeAxial ==
  /\ n_nodes = 2 /\ n_members = 1 /\ n_loads = 1
  /\ {members[0][1], members[0][2]} = {0, 1}
  /\ {BC_fixed, BC_roller} = {0, 1}
  /\ (nodes[1][1] - nodes[0][1]) * loads[0][3]
       - (nodes[1][2] - nodes[0][2]) * loads[0][2] = 0

\* The load's component along the direction from the other node to the
\* loaded one: positive when it pulls the nodes apart, negative when it
\* pushes them together.
Apart ==
  LET k == loads[0][1]
      o == 1 - k
  IN  loads[0][2] * (nodes[k][1] - nodes[o][1]) + loads[0][3] * (nodes[k][2] - nodes[o][2])

\* C8 as stated: on a solved two-node truss a load along the member that
\* pulls the nodes apart gives a positive member force and one that pushes
\* them together a negative one.
C8_SignWhereverLoaded ==
  (pc = "results" /\ TwoNodeAxial) =>
    /\ Apart > 0 => x[0].p > 0
    /\ Apart < 0 => x[0].p < 0

\* C8 amended: with the load on the roller node and the member not
\* vertical the solve succeeds, a pulling load gives a positive member
\* force and a pushing load a negative one.
C8_SignLoadOnRoller ==
  (TwoNodeAxial /\ loads[0][1] = BC_roller /\ nodes[0][1] # nodes[1][1]) =>
    /\ pc # "halted"
    /\ pc = "results" =>
         /\ Apart > 0 => x[0].p > 0
         /\ Apart < 0 => x[0].p < 0

C8_Witness ==
  /\ pc = "results" /\ TwoNodeAxial
  /\ loads[0][1] = BC_roller
  /\ nodes[1][1] # nodes[0][1] /\ nodes[1][2] # nodes[0][2]
  /\ Apart > 0
  /\ x[0].p > 0

IsBridge ==
  /\ nodes = BridgeInput.nodes
  /\ members = BridgeInput.members
  /\ BC_fixed = 0 /\ BC_roller = 5
  /\ loads = BridgeInput.loads

\* C9: on the sample bridge the determinacy cell reports Determinate, the
\* solve succeeds, FixedRy + RollerRy = 6 and FixedRx = 0.
C9_Bridge ==
  IsBridge =>
    /\ pc \notin {"joints", "determinacy"} => message = "Determinate"
    /\ pc # "halted"
    /\ pc = "results" =>
         /\ RAdd(Reaction(1), Reaction(2)) = <<6, 1>>
         /\ Reaction(0) = <<0, 1>>

C9_Witness ==
  /\ IsBridge
  /\ pc = "results"
  /\ x[n_members + 1].p = 3

\* C10: when a member joins two distinct nodes with identical coordinates
\* the matrix cell fails with DegenerateMemberError and produces no A.
C10_DegenerateRejected ==
  (/\ ValidGeometry
   /\ \E m \in DOMAIN members :
        /\ members[m][1] # members[m][2]
        /\ nodes[members[m][1]] = nodes[members[m][2]]
   /\ MatrixCellRan)
  => (err = "DegenerateMemberError" /\ A = <<>> /\ b = <<>>)

\* The integer matrix of AA (column c scaled by sqrt(ColumnScale(AA, c))).
Numerators(AA) == [i \in DOMAIN AA |-> [j \in DOMAIN AA[i] |-> AA[i][j].n]]

\* Fraction-free elimination of the N x N integer matrix M from column k
\* on (prev the previous pivot): TRUE when some column has no pivot, that
\* is when the determinant is 0.
RECURSIVE NoPivotFrom(_, _, _, _)
NoPivotFrom(M, N, k, prev) ==
  IF k = N THEN FALSE
  ELSE LET rows == {i \in k..(N - 1) : M[i][k] # 0}
       IN  IF rows = {} THEN TRUE
           ELSE LET p == CHOOSE i \in rows : \A l \in rows : i <= l
                    S == [i \in 0..(N - 1) |->
                           IF i = k THEN M[p] ELSE IF i = p THEN M[k] ELSE M[i]]
                    M2 == [i \in 0..(N - 1) |->
                            IF i <= k THEN S[i]
                            ELSE [j \in 0..(N - 1) |->
                                   IF j <= k THEN 0
                                   ELSE (S[i][j] * S[k][k] - S[i][k] * S[k][j]) \div prev]]
                IN  IF M2 = M2 THEN NoPivotFrom(M2, N, k + 1, S[k][k]) ELSE FALSE

Square(AA) == \A i \in DOMAIN AA : Cardinality(DOMAIN AA[i]) = Cardinality(DOMAIN AA)

Singular(AA) == NoPivotFrom(Numerators(AA), Cardinality(DOMAIN AA), 0, 1)

\* The solve cell has run.
Solved == pc \in {"results", "done"} \/ (pc = "halted" /\ b # <<>>)

C12_InvalidGeometryRejected ==
  (~ValidGeometry /\ JointsDone) =>
    (err = "InvalidGeometryError" /\ pc = "halted" /\ joints = <<>>)

\* C13: once a stage has met an error condition (an invalid geometry, a
\* degenerate member, a determinacy violation, a singular or non-square
\* system) no later cell runs and neither member results nor reactions are
\* produced.
C13_HaltOnError ==
  /\ err # "none" => (pc = "halted" /\ results = <<>> /\ reaction_forces = <<>>)
  /\ message \in {"UnderConstrained", "OverConstrained"} =>
       (pc = "assemble" /\ A = <<>> /\ b = <<>> /\ x = <<>>)
  /\ (~ValidGeometry /\ JointsDone) => (pc = "halted" /\ message = "none")

\* f <= g for f = (f.p/f.q) * sqrt(f.r) and g alike.
Leq(f, g) ==
  IF Sign(f) < 0 /\ Sign(g) >= 0 THEN TRUE
  ELSE IF Sign(f) >= 0 /\ Sign(g) < 0 THEN FALSE
  ELSE IF Sign(f) >= 0
       THEN f.p * f.p * f.r * g.q * g.q <= g.p * g.p * g.r * f.q * f.q
       ELSE f.p * f.p * f.r * g.q * g.q >= g.p * g.p * g.r * f.q * f.q

Whole(k) == [p |-> k, q |-> 1, r |-> 1]

\* C14: classify returns one result per member, in member order, holding
\* the member's solved force, of kind Tension exactly for a positive force,
\* Compression exactly for a negative one and Zero exactly for 0; the three
\* reactions are not among the results.
C14_ClassifyMembers ==
  pc = "done" =>
    /\ DOMAIN results = 0..(n_members - 1)
    /\ Cardinality(DOMAIN results) = Cardinality(DOMAIN x) - 3
    /\ \A i \in DOMAIN results :
         /\ results[i].memberIndex = i
         /\ results[i].force = x[i]
         /\ results[i].kind \in {"Tension", "Compression", "Zero"}
         /\ (results[i].kind = "Tension") <=> (x[i].p * x[i].q > 0)
         /\ (results[i].kind = "Compression") <=> (x[i].p * x[i].q < 0)
         /\ (results[i].kind = "Zero") <=> (x[i].p = 0)

C14_Witness ==
  /\ pc = "done"
  /\ n_members >= 3
  /\ \E i, j, k \in DOMAIN results :
       /\ results[i].kind = "Tension" /\ x[i].p > 0
       /\ results[j].kind = "Compression" /\ x[j].p < 0
       /\ results[k].kind = "Zero" /\ x[k].p = 0
  /\ x[n_members + 1].p # 0

\* The sum over the columns from c on of A[row][c] * x[c], a rational
\* since both carry the same square root.
RECURSIVE RowDot(_, _)
RowDot(row, c) ==
  IF c \notin DOMAIN x THEN <<0, 1>>
  ELSE RAdd(Rat(A[row][c].n * x[c].p, x[c].q), RowDot(row, c + 1))

\* C15: the unknown vector has n_members+3 entries and the reactions are
\* its last three: fixedX the entry n_members, fixedY the entry n_members+1
\* and rollerY the entry n_members+2, the columns the matrix cell gave to
\* the x and y equations of the fixed node and the y equation of the roller
\* node, whose equations they balance.
C15_Reactions ==
  pc = "done" =>
    /\ DOMAIN x = 0..(n_members + 2)
    /\ reaction_forces.fixedX = x[n_members]
    /\ reaction_forces.fixedY = x[n_members + 1]
    /\ reaction_forces.rollerY = x[n_members + 2]
    /\ A[2 * BC_fixed][n_members].n = 1
    /\ A[2 * BC_fixed + 1][n_members + 1].n = 1
    /\ A[2 * BC_roller + 1][n_members + 2].n = 1
    /\ \A row \in {2 * BC_fixed, 2 * BC_fixed + 1, 2 * BC_roller + 1} :
         RowDot(row, 0) = <<b[row], 1>>

C15_Witness ==
  /\ pc = "done"
  /\ BC_fixed # 0
  /\ reaction_forces.fixedX.p # 0
  /\ reaction_forces.fixedY.p # 0
  /\ reaction_forces.rollerY.p # 0
  /\ reaction_forces.fixedY # reaction_forces.rollerY
  /\ reaction_forces.fixedX = x[n_members]

\* C16: every member's colour index is an index of the colour map,
\* 0..n_contours-1; a force at or below max_compression_force has the
\* lowest index, a force at or above max_tension_force the highest, and a
\* larger force never has a smaller index.
C16_PaletteIndex ==
  pc = "done" =>
    \A i \in DOMAIN member_color :
      /\ member_color[i] \in 0..(n_contours - 1)
      /\ Leq(x[i], Whole(max_compression_force)) => member_color[i] = 0
      /\ Leq(Whole(max_tension_force), x[i]) => member_color[i] = n_contours - 1
      /\ \A j \in DOMAIN member_color :
           Leq(x[i], x[j]) => member_color[i] <= member_color[j]

\* Line k of the file holds exactly the numbers t.
LineIs(k, t) == k \in DOMAIN filelines /\ ~filelines[k].text /\ filelines[k].nums = t

\* The second line holds n_nodes and the lines after it the nodes.
NodesAsLaidOut ==
  /\ LineIs(1, <<n_nodes>>)
  /\ \A i \in DOMAIN nodes : LineIs(2 + i, nodes[i])

\* The members follow the line first - 1 that holds their number, the
\* fixed node is on the line gap after the last member, the roller node two
\* lines after the fixed node, the number of loads two lines after the
\* roller node and the loads on the lines after it.
RestAsLaidOut(first, gap) ==
  LET fixedAt == first + n_members - 1 + gap
  IN  /\ LineIs(first - 1, <<n_members>>)
      /\ \A i \in DOMAIN members : LineIs(first + i, members[i])
      /\ LineIs(fixedAt, <<BC_fixed>>)
      /\ LineIs(fixedAt + 2, <<BC_roller>>)
      /\ LineIs(fixedAt + 4, <<n_loads>>)
      /\ \A i \in DOMAIN loads : LineIs(fixedAt + 5 + i, loads[i])

\* The last line holding a node.
LastNodeLine == 1 + n_nodes

\* C17 as stated: what the reading cell has read is n_nodes from the second
\* line, the nodes from the lines after it, n_members from the line right
\* after the last node, the fixed node from the line right after the last
\* member, the roller node two lines after the fixed node, n_loads two
\* lines after the roller node and the loads right after n_loads.
C17_StatedLayout ==
  ReadDone => (NodesAsLaidOut /\ RestAsLaidOut(LastNodeLine + 2, 1))

\* C17 amended: n_members is read from the second line after the last node
\* and the fixed node from the second line after the last member, a line
\* being skipped before each; the rest is as stated.  A file without the
\* two skipped lines is not read.
C17_SkippedLines ==
  /\ ReadDone => (NodesAsLaidOut /\ RestAsLaidOut(LastNodeLine + 3, 2))
  /\ (pc # "read" /\ filelines \in Files) => ReadDone
  /\ (pc # "read" /\ filelines \in UnseparatedFiles) => (pc = "halted" /\ err = "ValueError")

C17_Witness ==
  /\ ReadDone
  /\ n_nodes = 6 /\ n_members = 9 /\ n_loads = 4
  /\ filelines[LastNodeLine + 1].text
  /\ filelines[LastNodeLine + 2].nums = <<9>>
  /\ filelines[LastNodeLine + 2 + n_members + 1].text
  /\ BC_fixed = 0 /\ BC_roller = 5

\* The sum of the numerators of column m over the rows row, row+2, ...
RECURSIVE ColumnSum(_, _)
ColumnSum(m, row) ==
  IF row \notin DOMAIN A THEN 0 ELSE A[row][m].n + ColumnSum(m, row + 2)

\* C18: in the column of a member between two distinct nodes that do not
\* coincide, the entries at one endpoint are the exact negatives of the
\* entries at the other, so the column sums to 0 over the x rows and over
\* the y rows.
C18_ColumnsAntisymmetric ==
  (ValidGeometry /\ Assembled) =>
    \A m \in DOMAIN members :
      LET a == members[m][1]
          c == members[m][2]
      IN  (a # c /\ nodes[a] # nodes[c]) =>
            /\ RealEq(A[2 * a][m], [n |-> -A[2 * c][m].n, r |-> A[2 * c][m].r])
            /\ RealEq(A[2 * a + 1][m], [n |-> -A[2 * c + 1][m].n, r |-> A[2 * c + 1][m].r])
            /\ ColumnSum(m, 0) = 0
            /\ ColumnSum(m, 1) = 0
====
